---- MODULE Spec2Model ----
(***************************************************************************)
(* A model of the ACIS SAT codec of ezdxf (src/src/ezdxf/acis.py): the     *)
(* header model, the record tokenizer, the entity builder, the pointer     *)
(* resolver, the entity graph and the serializer.                          *)
(*                                                                         *)
(* Text is modelled as TLA+ strings, read character by character with      *)
(* SubSeq and Len, so that formatting and parsing are computed the way the *)
(* code computes them.  Entities are objects with identity: the heap maps  *)
(* object numbers to their fields, object 0 is the shared NULL_PTR.        *)
(***************************************************************************)
EXTENDS Integers, Sequences, FiniteSets, TLC

VARIABLES
    heap,      \* object number -> AcisEntity fields; heap[0] is NULL_PTR
    header,    \* AcisTree.header (an AcisHeader)
    entities,  \* AcisTree.entities: sequence of object numbers
    bodies,    \* AcisTree.bodies: sequence of object numbers
    result     \* what the last call returned or raised

vars == <<heap, header, entities, bodies, result>>

(***************************************************************************)
(* Bounds of the model.                                                    *)
(***************************************************************************)
\* most record lines in one parse_sat input
MaxRecords == 2
\* most entity objects ever allocated in one behaviour of Spec
MaxObj == 2
\* most entities of a programmatically built graph in SpecRoundTrip
MaxGraph == 2
\* most lines of a text given to the record tokenizer in SpecRecords
MaxLines == 3

(***************************************************************************)
(* Python built-ins on text.                                               *)
(***************************************************************************)
\* s[i-1] in Python terms: the i-th character, 1-based
Ch(s, i) == SubSeq(s, i, i)

\* the only whitespace character of the model's alphabet is the blank
IsSpace(c) == c = " "

Digits == <<"0", "1", "2", "3", "4", "5", "6", "7", "8", "9">>

IsDigit(c) == c \in {"0", "1", "2", "3", "4", "5", "6", "7", "8", "9"}

DigitVal(c) == (CHOOSE d \in 1..10 : Digits[d] = c) - 1

\* s.startswith(p)
StartsWith(s, p) == Len(s) >= Len(p) /\ SubSeq(s, 1, Len(p)) = p

\* s.endswith(p)
EndsWith(s, p) == Len(s) >= Len(p) /\ SubSeq(s, Len(s) - Len(p) + 1, Len(s)) = p

\* the k-th smallest element of a finite set of integers
Nth(S, k) == CHOOSE i \in S : Cardinality({j \in S : j <= i}) = k

\* the largest element of a finite, non-empty set of integers
Max(S) == CHOOSE i \in S : \A j \in S : j <= i

\* the smallest element of a finite, non-empty set of integers
Min(S) == CHOOSE i \in S : \A j \in S : i <= j

\* the positions of the non-blank characters of s
NonBlank(s) == {i \in 1..Len(s) : ~IsSpace(Ch(s, i))}

\* s.rstrip()
RECURSIVE RStrip(_)
RStrip(s) ==
    IF Len(s) > 0 /\ IsSpace(Ch(s, Len(s)))
    THEN RStrip(SubSeq(s, 1, Len(s) - 1))
    ELSE s

\* s.split(): the maximal runs of non-blank characters, in order
Split(s) ==
    LET nb == NonBlank(s)
        starts == {i \in nb : (i - 1) \notin nb}
        ends == {i \in nb : (i + 1) \notin nb}
    IN  [k \in 1..Cardinality(starts) |-> SubSeq(s, Nth(starts, k), Nth(ends, k))]

\* sep.join(tokens)
RECURSIVE Join(_, _)
Join(tokens, sep) ==
    IF Len(tokens) = 0 THEN ""
    ELSE IF Len(tokens) = 1 THEN tokens[1]
    ELSE tokens[1] \o sep \o Join(Tail(tokens), sep)

\* all characters of s from position i on are digits
AllDigitsFrom(s, i) == \A k \in i..Len(s) : IsDigit(Ch(s, k))

HasSign(s) == Len(s) > 0 /\ Ch(s, 1) \in {"+", "-"}

\* int(s) succeeds: an optional sign and at least one decimal digit
\* (the "_" digit separator and non-ASCII digits are outside the alphabet)
IsInt(s) ==
    LET first == IF HasSign(s) THEN 2 ELSE 1
    IN  Len(s) >= first /\ AllDigitsFrom(s, first)

RECURSIVE DigitsValue(_, _, _)
DigitsValue(s, i, acc) ==
    IF i > Len(s) THEN acc
    ELSE DigitsValue(s, i + 1, acc * 10 + DigitVal(Ch(s, i)))

\* int(s), for IsInt(s)
IntOf(s) ==
    IF HasSign(s)
    THEN IF Ch(s, 1) = "-" THEN 0 - DigitsValue(s, 2, 0) ELSE DigitsValue(s, 2, 0)
    ELSE DigitsValue(s, 1, 0)

\* str(n) of a natural number
RECURSIVE StrNat(_)
StrNat(n) ==
    IF n < 10 THEN Digits[n + 1]
    ELSE StrNat(n \div 10) \o Digits[(n % 10) + 1]

\* str(n) of an integer
Str(n) == IF n < 0 THEN "-" \o StrNat(0 - n) ELSE StrNat(n)

(***************************************************************************)
(* Floats and dates of the header.  A float is held as the text "{x:g}"    *)
(* prints for it; the model covers the ASCII decimal literals (a sign, a   *)
(* mantissa of digits with at most one ".", an exponent) of at most six    *)
(* significant digits and a magnitude of 1e-300 to 1e300 or zero, which    *)
(* "{x:g}" prints without rounding; "inf", "nan" and "_" between digits    *)
(* are not covered.  A datetime is held as the text ctime() prints for it. *)
(***************************************************************************)
\* position of the first "." of s from position i on, or 0
DotPos(s, i) ==
    LET dots == {k \in i..Len(s) : Ch(s, k) = "."}
    IN  IF dots = {} THEN 0 ELSE Min(dots)

RECURSIVE StripTrailingZeros(_)
StripTrailingZeros(s) ==
    IF Len(s) > 0 /\ Ch(s, Len(s)) = "0"
    THEN StripTrailingZeros(SubSeq(s, 1, Len(s) - 1))
    ELSE s

\* s without one leading sign
Unsigned(s) ==
    IF Len(s) > 0 /\ Ch(s, 1) \in {"+", "-"} THEN SubSeq(s, 2, Len(s)) ELSE s

\* position of the first "e" or "E" of s, or 0
ExpPos(s) ==
    LET es == {k \in 1..Len(s) : Ch(s, k) \in {"e", "E"}}
    IN  IF es = {} THEN 0 ELSE Min(es)

\* the text of s between its sign and its exponent part
Mantissa(s) ==
    IF ExpPos(Unsigned(s)) = 0 THEN Unsigned(s)
    ELSE SubSeq(Unsigned(s), 1, ExpPos(Unsigned(s)) - 1)

\* the text of the exponent part of s after its "e", "0" if s has none
ExponentText(s) ==
    IF ExpPos(Unsigned(s)) = 0 THEN "0"
    ELSE SubSeq(Unsigned(s), ExpPos(Unsigned(s)) + 1, Len(Unsigned(s)))

\* m is digits with at most one ".", at least one digit
IsDecimal(m) ==
    LET d == DotPos(m, 1)
        ip == IF d = 0 THEN m ELSE SubSeq(m, 1, d - 1)
        fp == IF d = 0 THEN "" ELSE SubSeq(m, d + 1, Len(m))
    IN  /\ Len(ip) + Len(fp) > 0
        /\ AllDigitsFrom(ip, 1)
        /\ AllDigitsFrom(fp, 1)

\* float(s) succeeds, for the literals the model covers: an optional sign,
\* a decimal mantissa, an optional exponent of an optional sign and digits
IsFloat(s) ==
    /\ IsDecimal(Mantissa(s))
    /\ Len(Unsigned(ExponentText(s))) > 0
    /\ AllDigitsFrom(Unsigned(ExponentText(s)), 1)

\* the value of the exponent part of s
Exponent(s) ==
    IF Len(ExponentText(s)) > 0 /\ Ch(ExponentText(s), 1) = "-"
    THEN -DigitsValue(Unsigned(ExponentText(s)), 1, 0)
    ELSE DigitsValue(Unsigned(ExponentText(s)), 1, 0)

\* the number of "0" characters s starts with
LeadingZeros(s) == Min({k \in 1..Len(s) : Ch(s, k) # "0"} \cup {Len(s) + 1}) - 1

\* n characters "0", n <= 6
Zeros(n) == SubSeq("000000", 1, n)

\* "{x:g}" for the number 0.d1d2...dn * 10^(x + 1), where sig is the text
\* of its significant digits d1...dn (n <= 6, d1 and dn not 0): exponent
\* form if x < -4 or x >= 6, else fixed form, no trailing zeros
FormatG(sig, x) ==
    IF x < -4 \/ x >= 6
    THEN SubSeq(sig, 1, 1)
         \o (IF Len(sig) > 1 THEN "." \o SubSeq(sig, 2, Len(sig)) ELSE "")
         \o "e" \o (IF x < 0 THEN "-" ELSE "+")
         \o (IF x < 0 THEN (IF -x < 10 THEN "0" ELSE "") \o Str(-x)
             ELSE (IF x < 10 THEN "0" ELSE "") \o Str(x))
    ELSE IF x < 0 THEN "0." \o Zeros(-x - 1) \o sig
    ELSE IF Len(sig) <= x + 1 THEN sig \o Zeros(x + 1 - Len(sig))
    ELSE SubSeq(sig, 1, x + 1) \o "." \o SubSeq(sig, x + 2, Len(sig))

\* "{x:g}" of the value of mantissa m times 10^e, without its sign
FloatOfParts(m, e) ==
    LET d == DotPos(m, 1)
        ip == IF d = 0 THEN m ELSE SubSeq(m, 1, d - 1)
        fp == IF d = 0 THEN "" ELSE SubSeq(m, d + 1, Len(m))
        digits == ip \o fp
        z == LeadingZeros(digits)
    IN  IF z = Len(digits) THEN "0"
        ELSE FormatG(StripTrailingZeros(SubSeq(digits, z + 1, Len(digits))),
                     Len(ip) - z - 1 + e)

\* f"{float(s):g}", for IsFloat(s)
FloatOf(s) ==
    (IF Ch(s, 1) = "-" THEN "-" ELSE "") \o FloatOfParts(Mantissa(s), Exponent(s))

\* the construction time datetime.now() of a header, as ctime() prints it
Now == "Fri Oct 30 00:46:00 2026"

\* c.lower() of one ASCII character
LowerCh(c) ==
    CASE c = "A" -> "a" [] c = "B" -> "b" [] c = "C" -> "c" [] c = "D" -> "d"
      [] c = "E" -> "e" [] c = "F" -> "f" [] c = "G" -> "g" [] c = "H" -> "h"
      [] c = "I" -> "i" [] c = "J" -> "j" [] c = "K" -> "k" [] c = "L" -> "l"
      [] c = "M" -> "m" [] c = "N" -> "n" [] c = "O" -> "o" [] c = "P" -> "p"
      [] c = "Q" -> "q" [] c = "R" -> "r" [] c = "S" -> "s" [] c = "T" -> "t"
      [] c = "U" -> "u" [] c = "V" -> "v" [] c = "W" -> "w" [] c = "X" -> "x"
      [] c = "Y" -> "y" [] c = "Z" -> "z" [] OTHER -> c

\* s.lower()
RECURSIVE Lower(_)
Lower(s) == IF s = "" THEN "" ELSE LowerCh(Ch(s, 1)) \o Lower(SubSeq(s, 2, Len(s)))

\* the abbreviated weekday names of %a, Monday first, and month names of %b
DayNames == <<"Mon", "Tue", "Wed", "Thu", "Fri", "Sat", "Sun">>

MonthNames ==
    <<"Jan", "Feb", "Mar", "Apr", "May", "Jun",
      "Jul", "Aug", "Sep", "Oct", "Nov", "Dec">>

\* the position of the lower-case text t among the names, or 0
IndexOfLower(names, t) ==
    LET hits == {k \in 1..Len(names) : names[k] = t}
    IN  IF hits = {} THEN 0 ELSE Min(hits)

\* the position of the name that t spells in any case, or 0
NameIndex(names, t) ==
    IF Len(t) # 3 THEN 0
    ELSE IndexOfLower([k \in 1..Len(names) |-> Lower(names[k])], Lower(t))

\* t is one or two digits
IsShortNumber(t) == Len(t) \in {1, 2} /\ AllDigitsFrom(t, 1)

\* the parts of t between its ":" characters
ColonParts(t) ==
    LET colons == {k \in 1..Len(t) : Ch(t, k) = ":"}
        n == Cardinality(colons)
        from(k) == IF k = 1 THEN 1 ELSE Nth(colons, k - 1) + 1
        to(k) == IF k = n + 1 THEN Len(t) ELSE Nth(colons, k) - 1
    IN  [k \in 1..(n + 1) |-> SubSeq(t, from(k), to(k))]

IsLeap(y) == (y % 4 = 0 /\ y % 100 # 0) \/ y % 400 = 0

DaysInMonth(y, m) ==
    IF m = 2 THEN (IF IsLeap(y) THEN 29 ELSE 28)
    ELSE IF m \in {4, 6, 9, 11} THEN 30 ELSE 31

\* datetime.strptime(s, "%a %b %d %H:%M:%S %Y") does not raise: five
\* fields parted by whitespace, none before the first or after the last;
\* names in any case; day, hour, minute and second of one or two digits,
\* the day without "0" and "00"; a year of four digits, not 0000; a day the
\* month has.  The weekday need not be the date's.
IsCTime(s) ==
    LET f == Split(s)
    IN  /\ Len(s) > 0
        /\ ~IsSpace(Ch(s, 1))
        /\ ~IsSpace(Ch(s, Len(s)))
        /\ Len(f) = 5
        /\ NameIndex(DayNames, f[1]) # 0
        /\ NameIndex(MonthNames, f[2]) # 0
        /\ IsShortNumber(f[3])
        /\ f[3] \notin {"0", "00"}
        /\ Len(ColonParts(f[4])) = 3
        /\ \A k \in 1..3 : IsShortNumber(ColonParts(f[4])[k])
        /\ DigitsValue(ColonParts(f[4])[1], 1, 0) <= 23
        /\ DigitsValue(ColonParts(f[4])[2], 1, 0) <= 59
        /\ DigitsValue(ColonParts(f[4])[3], 1, 0) <= 59
        /\ Len(f[5]) = 4
        /\ AllDigitsFrom(f[5], 1)
        /\ DigitsValue(f[5], 1, 0) >= 1
        /\ DigitsValue(f[3], 1, 0) <=
               DaysInMonth(DigitsValue(f[5], 1, 0), NameIndex(MonthNames, f[2]))

\* date(y, m, d).weekday(): 0 for Monday
Weekday(y, m, d) ==
    LET t == <<0, 3, 2, 5, 0, 3, 5, 1, 4, 6, 2, 4>>
        yy == IF m < 3 THEN y - 1 ELSE y
    IN  (yy + (yy \div 4) - (yy \div 100) + (yy \div 400) + t[m] + d + 6) % 7

\* n as two characters, padded with pad
Pad2(n, pad) == (IF n < 10 THEN pad ELSE "") \o Str(n)

\* datetime.strptime(s, ...).ctime(), for IsCTime(s): the weekday of the
\* date, the day padded with a blank, the time and the year with zeros
CTimeOf(s) ==
    LET f == Split(s)
        y == DigitsValue(f[5], 1, 0)
        m == NameIndex(MonthNames, f[2])
        d == DigitsValue(f[3], 1, 0)
        hms == ColonParts(f[4])
    IN  DayNames[Weekday(y, m, d) + 1] \o " " \o MonthNames[m] \o " "
        \o Pad2(d, " ") \o " "
        \o Pad2(DigitsValue(hms[1], 1, 0), "0") \o ":"
        \o Pad2(DigitsValue(hms[2], 1, 0), "0") \o ":"
        \o Pad2(DigitsValue(hms[3], 1, 0), "0") \o " "
        \o (IF y < 10 THEN "000" ELSE IF y < 100 THEN "00"
            ELSE IF y < 1000 THEN "0" ELSE "") \o Str(y)

(***************************************************************************)
(* Header model.                                                           *)
(***************************************************************************)
\* ACIS_VERSION: the known version codes and their version strings
ACIS_VERSION == [v \in {400, 20800} |->
                    IF v = 400 THEN "ACIS 4.00 NT" ELSE "ACIS 208.00 NT"]

\* AcisHeader(): the dataclass defaults
AcisHeader ==
    [version |-> 400, n_records |-> 0, n_entities |-> 0, history_flag |-> 0,
     product_id |-> "ezdxf ACIS Builder", acis_version |-> ACIS_VERSION[400],
     creation_date |-> Now, units_in_mm |-> "1"]

\* AcisHeader._header_str
HeaderStr(h) ==
    LET p_len == Str(Len(h.product_id))
        a_len == Str(Len(h.acis_version))
        date == h.creation_date
        d_len == Str(Len(date))
    IN  IF h.version > 400
        THEN "@" \o p_len \o " " \o h.product_id \o " @" \o a_len \o " "
             \o h.acis_version \o " @" \o d_len \o " " \o date \o " "
        ELSE p_len \o " " \o h.product_id \o " " \o a_len \o " "
             \o h.acis_version \o " " \o d_len \o " " \o date \o " "

\* AcisHeader.dumps
HeaderDumps(h) ==
    << Str(h.version) \o " " \o Str(h.n_records) \o " " \o Str(h.n_entities)
           \o " " \o Str(h.history_flag) \o " ",
       HeaderStr(h),
       h.units_in_mm \o " 9.9999999999999995e-007 1e-010 " >>

\* the version the mutated setter stores before it looks the code up
SetVersionEager(h, version) ==
    IF version \in DOMAIN ACIS_VERSION
    THEN [status |-> "ok",
          header |-> [h EXCEPT !.acis_version = ACIS_VERSION[version],
                               !.version = version]]
    ELSE [status |-> "ValueError", header |-> [h EXCEPT !.version = version]]

\* AcisHeader.set_version: the lookup raises before anything is assigned
SetVersion(h, version) ==
    IF version \in DOMAIN ACIS_VERSION
    THEN [status |-> "ok",
          header |-> [h EXCEPT !.acis_version = ACIS_VERSION[version],
                               !.version = version]]
    ELSE [status |-> "ValueError", header |-> h]

\* the digits among the characters at the positions P of s, joined in order
RECURSIVE DigitsAt(_, _)
DigitsAt(s, P) ==
    IF P = {} THEN ""
    ELSE DigitsAt(s, P \ {Max(P)}) \o Ch(s, Max(P))

\* _parse_header_str from position i on with num = "" and collect = 0, one
\* step for each length prefix instead of one for each character.  While
\* nothing is collected the loop appends every digit to num and passes over
\* every other character, until a blank is met with num non-empty, at
\* position j: collect = int(num).  The next collect characters are the
\* token, yielded once the last of them is read; a text that ends before
\* yields no token.
RECURSIVE ParseHeaderStrFrom(_, _, _)
ParseHeaderStrFrom(s, i, acc) ==
    LET digits == {k \in i..Len(s) : IsDigit(Ch(s, k))}
        blanks == IF digits = {} THEN {}
                  ELSE {j \in (Min(digits) + 1)..Len(s) : Ch(s, j) = " "}
    IN  IF blanks = {} THEN acc
        ELSE LET j == Min(blanks)
                 num == DigitsAt(s, {k \in digits : k < j})
                 collect == IntOf(num)
             IN  IF collect = 0 THEN ParseHeaderStrFrom(s, j + 1, acc)
                 ELSE IF j + collect > Len(s) THEN acc
                 ELSE ParseHeaderStrFrom(s, j + collect + 1,
                          Append(acc, SubSeq(s, j + 1, j + collect)))

\* _parse_header_str: the tokens yielded over the characters of s.rstrip()
ParseHeaderStr(s) == ParseHeaderStrFrom(RStrip(s), 1, <<>>)

\* parse_sat_header, lines 192-197: the three count fields are assigned in
\* one try block, which the first missing or non-numeric token leaves
Line0Counts(h, tokens) ==
    LET ok(k) == Len(tokens) >= k /\ IsInt(tokens[k])
        h1 == IF ok(2) THEN [h EXCEPT !.n_records = IntOf(tokens[2])] ELSE h
        h2 == IF ok(2) /\ ok(3) THEN [h1 EXCEPT !.n_entities = IntOf(tokens[3])] ELSE h1
        h3 == IF ok(2) /\ ok(3) /\ ok(4)
              THEN [h2 EXCEPT !.history_flag = IntOf(tokens[4])] ELSE h2
    IN  h3

\* parse_sat_header, lines 198-203: product_id and acis_version from line 1
Line1Strings(h, tokens) ==
    LET h1 == IF Len(tokens) >= 1 THEN [h EXCEPT !.product_id = tokens[1]] ELSE h
        h2 == IF Len(tokens) >= 2 THEN [h1 EXCEPT !.acis_version = tokens[2]] ELSE h1
    IN  h2

\* parse_sat_header, lines 205-211: the creation date, kept on a mismatch
Line1Date(h, tokens) ==
    IF Len(tokens) > 2 /\ IsCTime(tokens[3])
    THEN [h EXCEPT !.creation_date = CTimeOf(tokens[3])]
    ELSE h

\* parse_sat_header, lines 212-216: units_in_mm from line 2
Line2Units(h, tokens) ==
    IF Len(tokens) >= 1 /\ IsFloat(tokens[1])
    THEN [h EXCEPT !.units_in_mm = FloatOf(tokens[1])]
    ELSE h

\* parse_sat_header: [status, header, rest]
ParseSatHeader(data) ==
    IF Len(data) = 0
    THEN [status |-> "IndexError", header |-> AcisHeader, rest |-> <<>>]
    ELSE LET t0 == Split(data[1])
         IN  IF Len(t0) = 0
             THEN [status |-> "IndexError", header |-> AcisHeader, rest |-> <<>>]
             ELSE IF ~IsInt(t0[1])
             THEN [status |-> "ValueError", header |-> AcisHeader, rest |-> <<>>]
             ELSE IF Len(data) < 3
             THEN [status |-> "IndexError", header |-> AcisHeader, rest |-> <<>>]
             ELSE LET h0 == [AcisHeader EXCEPT !.version = IntOf(t0[1])]
                      h1 == Line0Counts(h0, t0)
                      t1 == ParseHeaderStr(data[2])
                      h2 == Line1Date(Line1Strings(h1, t1), t1)
                      h3 == Line2Units(h2, Split(data[3]))
                  IN  [status |-> "ok", header |-> h3,
                       rest |-> SubSeq(data, 4, Len(data))]

(***************************************************************************)
(* Entities.  A data item is a literal token or a reference to an entity   *)
(* object; before resolution every item is a literal.  An object number    *)
(* stands for the identity of an AcisEntity.                               *)
(***************************************************************************)
\* the object number of the NULL_PTR instance
NULL_PTR == 0

\* the value None of a reference field that was never assigned an entity
None == -1

Lit(t) == [isref |-> FALSE, lit |-> t, ref |-> None]

Ref(e) == [isref |-> TRUE, lit |-> "", ref |-> e]

\* AcisEntity.__init__
AcisEntity(name, attr_ptr, id, data) ==
    [name |-> name, attr_ptr |-> attr_ptr, id |-> id, data |-> data,
     attributes |-> None]

\* NULL_PTR = AcisEntity("null-ptr", "$-1", -1, [])
NullPtrEntity == AcisEntity("null-ptr", "$-1", -1, <<>>)

\* new_acis_entity
NewAcisEntity(name, attributes, id, data) ==
    [AcisEntity(name, "$-1", id, data) EXCEPT !.attributes = attributes]

\* is_ptr
IsPtr(s) == Len(s) > 0 /\ Ch(s, 1) = "$"

\* the objects allocated so far, NULL_PTR not counted
Allocated(hp) == DOMAIN hp \ {NULL_PTR}

\* the heap with the objects of the sequence objs allocated after the others
Alloc(hp, objs) ==
    LET n == Cardinality(Allocated(hp))
    IN  [o \in 0..(n + Len(objs)) |-> IF o <= n THEN hp[o] ELSE objs[o - n]]

(***************************************************************************)
(* Serializer.                                                             *)
(***************************************************************************)
\* list.index(e): the first 0-based position of e in the sequence, or -1
RECURSIVE IndexFrom(_, _, _)
IndexFrom(seq, e, i) ==
    IF i > Len(seq) THEN -1
    ELSE IF seq[i] = e THEN i - 1
    ELSE IndexFrom(seq, e, i + 1)

Index(seq, e) == IndexFrom(seq, e, 1)

\* a pointer encoder that emits the referenced object's number
PtrStrStored(ents, e) ==
    IF e = NULL_PTR THEN [ok |-> TRUE, s |-> "$-1"]
    ELSE IF Index(ents, e) < 0 THEN [ok |-> FALSE, s |-> ""]
    ELSE [ok |-> TRUE, s |-> "$" \o Str(e - 1)]

\* a pointer encoder that emits the null pointer for an entity it cannot find
PtrStrLenient(ents, e) ==
    IF e = NULL_PTR \/ Index(ents, e) < 0 THEN [ok |-> TRUE, s |-> "$-1"]
    ELSE [ok |-> TRUE, s |-> "$" \o Str(Index(ents, e))]

\* build_str_records.ptr_str: ok is FALSE where InvalidACISLinkStructure is raised
PtrStr(ents, e) ==
    IF e = NULL_PTR THEN [ok |-> TRUE, s |-> "$-1"]
    ELSE IF Index(ents, e) < 0 THEN [ok |-> FALSE, s |-> ""]
    ELSE [ok |-> TRUE, s |-> "$" \o Str(Index(ents, e))]

\* the tokens of the data items of one entity
RECURSIVE DataTokens(_, _, _)
DataTokens(ents, data, i) ==
    IF i > Len(data) THEN <<>>
    ELSE <<IF data[i].isref THEN PtrStr(ents, data[i].ref).s ELSE data[i].lit>>
         \o DataTokens(ents, data, i + 1)

\* an entity line that never carries the id token
EntityLineNoId(ents, version, e) ==
    Join(<<e.name, PtrStr(ents, e.attributes).s>>
         \o DataTokens(ents, e.data, 1) \o <<"#">>, " ")

\* build_str_records, lines 133-143: the line of one entity
EntityLine(ents, version, e) ==
    Join(<<e.name, PtrStr(ents, e.attributes).s>>
         \o (IF version >= 700 THEN <<Str(e.id)>> ELSE <<>>)
         \o DataTokens(ents, e.data, 1) \o <<"#">>, " ")

\* every reference of the entity is NULL_PTR or found in the sequence
LinksFound(ents, e) ==
    /\ PtrStr(ents, e.attributes).ok
    /\ \A i \in 1..Len(e.data) : e.data[i].isref => PtrStr(ents, e.data[i].ref).ok

\* build_str_records: [status, lines]
BuildStrRecords(hp, ents, version) ==
    IF \A p \in 1..Len(ents) : LinksFound(ents, hp[ents[p]])
    THEN [status |-> "ok",
          lines |-> [p \in 1..Len(ents) |-> EntityLine(ents, version, hp[ents[p]])]]
    ELSE [status |-> "InvalidACISLinkStructure", lines |-> <<>>]

\* AcisTree.dump_sat: [status, lines]
DumpSat(hp, h, ents) ==
    LET r == BuildStrRecords(hp, ents, h.version)
    IN  IF r.status = "ok"
        THEN [status |-> "ok",
              lines |-> HeaderDumps(h) \o r.lines \o <<"End-of-ACIS-data ">>]
        ELSE r

\* a body filter that takes every entity for a body
BodiesFromUnfiltered(hp, ents, i) == ents

\* AcisTree.set_entities, line 115: the entities named "body", in order
RECURSIVE BodiesFrom(_, _, _)
BodiesFrom(hp, ents, i) ==
    IF i > Len(ents) THEN <<>>
    ELSE (IF hp[ents[i]].name = "body" THEN <<ents[i]>> ELSE <<>>)
         \o BodiesFrom(hp, ents, i + 1)

(***************************************************************************)
(* Record tokenizer.                                                       *)
(***************************************************************************)
\* a merge pass that skips a marker line and goes on with the lines after it
RECURSIVE MergeFromPastMarker(_, _, _, _)
MergeFromPastMarker(data, i, current_line, acc) ==
    IF i > Len(data) THEN acc
    ELSE LET line == data[i]
         IN  IF \/ Len(line) = 0
                \/ StartsWith(line, "End-of-ACIS-data")
                \/ StartsWith(line, "Begin-of-ACIS-History-Data")
             THEN MergeFromPastMarker(data, i + 1, current_line, acc)
             ELSE LET cur == current_line \o line
                  IN  IF Ch(cur, Len(cur)) = "#"
                      THEN MergeFromPastMarker(data, i + 1, "", Append(acc, cur))
                      ELSE IF Ch(cur, Len(cur)) # " "
                      THEN MergeFromPastMarker(data, i + 1, cur \o " ", acc)
                      ELSE MergeFromPastMarker(data, i + 1, cur, acc)

\* _merge_record_strings: the merged record strings, in order
RECURSIVE MergeFrom(_, _, _, _)
MergeFrom(data, i, current_line, acc) ==
    IF i > Len(data) THEN acc
    ELSE LET line == data[i]
         IN  IF Len(line) = 0
             THEN MergeFrom(data, i + 1, current_line, acc)
             ELSE IF \/ StartsWith(line, "End-of-ACIS-data")
                     \/ StartsWith(line, "Begin-of-ACIS-History-Data")
             THEN acc
             ELSE LET cur == current_line \o line
                  IN  IF Ch(cur, Len(cur)) = "#"
                      THEN MergeFrom(data, i + 1, "", Append(acc, cur))
                      ELSE IF Ch(cur, Len(cur)) # " "
                      THEN MergeFrom(data, i + 1, cur \o " ", acc)
                      ELSE MergeFrom(data, i + 1, cur, acc)

MergeRecordStrings(data) == MergeFrom(data, 1, "", <<>>)

\* tokens[:-1]
DropLast(tokens) == SubSeq(tokens, 1, Len(tokens) - 1)

\* a numbering whose counter an override leaves alone: a record without
\* override is numbered by the count of the records before it
RECURSIVE ParseRecordsCounting(_, _, _, _)
ParseRecordsCounting(lines, i, num, acc) ==
    IF i > Len(lines) THEN [status |-> "ok", records |-> acc]
    ELSE LET tokens == Split(lines[i])
             first_token == tokens[1]
         IN  IF EndsWith(first_token, "=")
             THEN LET digits == SubSeq(first_token, 1, Len(first_token) - 1)
                  IN  IF ~IsInt(digits)
                      THEN [status |-> "ValueError", records |-> acc]
                      ELSE ParseRecordsCounting(lines, i + 1, num + 1,
                               Append(acc, [num |-> IntOf(digits),
                                            tokens |-> DropLast(Tail(tokens))]))
             ELSE ParseRecordsCounting(lines, i + 1, num + 1,
                      Append(acc, [num |-> num, tokens |-> DropLast(tokens)]))

\* parse_records over the merged lines: [status, records], a record being
\* [num, tokens]
RECURSIVE ParseRecordsFrom(_, _, _, _)
ParseRecordsFrom(lines, i, num, acc) ==
    IF i > Len(lines) THEN [status |-> "ok", records |-> acc]
    ELSE LET tokens == Split(lines[i])
             first_token == tokens[1]
         IN  IF EndsWith(first_token, "=")
             THEN LET digits == SubSeq(first_token, 1, Len(first_token) - 1)
                  IN  IF ~IsInt(digits)
                      THEN [status |-> "ValueError", records |-> acc]
                      ELSE ParseRecordsFrom(lines, i + 1, IntOf(digits) + 1,
                               Append(acc, [num |-> IntOf(digits),
                                            tokens |-> DropLast(Tail(tokens))]))
             ELSE ParseRecordsFrom(lines, i + 1, num + 1,
                      Append(acc, [num |-> num, tokens |-> DropLast(tokens)]))

ParseRecords(data) == ParseRecordsFrom(MergeRecordStrings(data), 1, 0, <<>>)

(***************************************************************************)
(* Entity builder.  The dict keyed by record number is a sequence of       *)
(* [num, ent] items in insertion order; assigning to a key that is present *)
(* replaces the value and keeps the key's place.                           *)
(***************************************************************************)
HasKey(dict, num) == \E k \in 1..Len(dict) : dict[k].num = num

\* dict[num], for HasKey(dict, num): the position of the key
KeyPos(dict, num) == CHOOSE k \in 1..Len(dict) : dict[k].num = num

\* dict[num] = ent
DictSet(dict, num, ent) ==
    IF HasKey(dict, num)
    THEN [dict EXCEPT ![KeyPos(dict, num)] = [num |-> num, ent |-> ent]]
    ELSE Append(dict, [num |-> num, ent |-> ent])

\* the raw data tokens of a record, as unresolved data items
RawData(tokens, from) == [k \in 1..(Len(tokens) - from + 1) |-> Lit(tokens[k + from - 1])]

\* a builder that reads an id token only above version 700
RECURSIVE BuildEntitiesAbove700(_, _, _, _)
BuildEntitiesAbove700(records, version, i, dict) ==
    IF i > Len(records) THEN [status |-> "ok", dict |-> dict]
    ELSE LET tokens == records[i].tokens
         IN  IF Len(tokens) < 2
             THEN [status |-> "IndexError", dict |-> dict]
             ELSE IF version > 700
             THEN IF Len(tokens) < 3
                  THEN [status |-> "IndexError", dict |-> dict]
                  ELSE IF ~IsInt(tokens[3])
                  THEN [status |-> "ValueError", dict |-> dict]
                  ELSE BuildEntitiesAbove700(records, version, i + 1,
                           DictSet(dict, records[i].num,
                               AcisEntity(tokens[1], tokens[2], IntOf(tokens[3]),
                                          RawData(tokens, 4))))
             ELSE BuildEntitiesAbove700(records, version, i + 1,
                      DictSet(dict, records[i].num,
                          AcisEntity(tokens[1], tokens[2], -1, RawData(tokens, 3))))

\* build_entities: [status, dict]
RECURSIVE BuildEntitiesFrom(_, _, _, _)
BuildEntitiesFrom(records, version, i, dict) ==
    IF i > Len(records) THEN [status |-> "ok", dict |-> dict]
    ELSE LET tokens == records[i].tokens
         IN  IF Len(tokens) < 2
             THEN [status |-> "IndexError", dict |-> dict]
             ELSE IF version >= 700
             THEN IF Len(tokens) < 3
                  THEN [status |-> "IndexError", dict |-> dict]
                  ELSE IF ~IsInt(tokens[3])
                  THEN [status |-> "ValueError", dict |-> dict]
                  ELSE BuildEntitiesFrom(records, version, i + 1,
                           DictSet(dict, records[i].num,
                               AcisEntity(tokens[1], tokens[2], IntOf(tokens[3]),
                                          RawData(tokens, 4))))
             ELSE BuildEntitiesFrom(records, version, i + 1,
                      DictSet(dict, records[i].num,
                          AcisEntity(tokens[1], tokens[2], -1, RawData(tokens, 3))))

BuildEntities(records, version) == BuildEntitiesFrom(records, version, 1, <<>>)

(***************************************************************************)
(* Pointer resolver.  The entities of the dict are allocated in dict order *)
(* after the objects of the heap: the k-th item becomes object base + k.   *)
(***************************************************************************)
\* a resolver that takes the pointer's number for a position of the source
PtrByPosition(dict, base, s) ==
    IF ~IsPtr(s) THEN [status |-> "ValueError", ref |-> None]
    ELSE LET payload == SubSeq(s, 2, Len(s))
         IN  IF ~IsInt(payload) THEN [status |-> "ValueError", ref |-> None]
             ELSE IF IntOf(payload) = -1 THEN [status |-> "ok", ref |-> NULL_PTR]
             ELSE IF IntOf(payload) \notin 0..(Len(dict) - 1)
             THEN [status |-> "KeyError", ref |-> None]
             ELSE [status |-> "ok", ref |-> base + IntOf(payload) + 1]

\* a resolver that never looks the record number up in the dict
PtrUnchecked(dict, base, s) ==
    IF ~IsPtr(s) THEN [status |-> "ValueError", ref |-> None]
    ELSE LET payload == SubSeq(s, 2, Len(s))
         IN  IF ~IsInt(payload) THEN [status |-> "ValueError", ref |-> None]
             ELSE IF IntOf(payload) = -1 THEN [status |-> "ok", ref |-> NULL_PTR]
             ELSE [status |-> "ok", ref |-> base + IntOf(payload) + 1]

\* a resolver that takes a pointer it cannot find for the null pointer
PtrLenient(dict, base, s) ==
    IF ~IsPtr(s) THEN [status |-> "ValueError", ref |-> None]
    ELSE LET payload == SubSeq(s, 2, Len(s))
         IN  IF ~IsInt(payload) THEN [status |-> "ValueError", ref |-> None]
             ELSE IF IntOf(payload) = -1 \/ ~HasKey(dict, IntOf(payload))
             THEN [status |-> "ok", ref |-> NULL_PTR]
             ELSE [status |-> "ok", ref |-> base + KeyPos(dict, IntOf(payload))]

\* a resolver that takes "$-1" for the first entity of the dict
PtrNullOwned(dict, base, s) ==
    IF ~IsPtr(s) THEN [status |-> "ValueError", ref |-> None]
    ELSE LET payload == SubSeq(s, 2, Len(s))
         IN  IF ~IsInt(payload) THEN [status |-> "ValueError", ref |-> None]
             ELSE IF IntOf(payload) = -1 THEN [status |-> "ok", ref |-> base + 1]
             ELSE IF ~HasKey(dict, IntOf(payload))
             THEN [status |-> "KeyError", ref |-> None]
             ELSE [status |-> "ok", ref |-> base + KeyPos(dict, IntOf(payload))]

\* resolve_str_pointers.ptr: [status, ref]
Ptr(dict, base, s) ==
    IF ~IsPtr(s) THEN [status |-> "ValueError", ref |-> None]
    ELSE LET payload == SubSeq(s, 2, Len(s))
         IN  IF ~IsInt(payload) THEN [status |-> "ValueError", ref |-> None]
             ELSE IF IntOf(payload) = -1 THEN [status |-> "ok", ref |-> NULL_PTR]
             ELSE IF ~HasKey(dict, IntOf(payload))
             THEN [status |-> "KeyError", ref |-> None]
             ELSE [status |-> "ok", ref |-> base + KeyPos(dict, IntOf(payload))]

\* resolve_str_pointers, lines 158-164: the data of one entity, resolved
ResolveData(dict, base, data) ==
    [k \in 1..Len(data) |->
        IF IsPtr(data[k].lit) THEN Ref(Ptr(dict, base, data[k].lit).ref) ELSE data[k]]

\* the status of the first pointer of the data that fails to resolve, or "ok"
RECURSIVE DataStatus(_, _, _, _)
DataStatus(dict, base, data, k) ==
    IF k > Len(data) THEN "ok"
    ELSE IF IsPtr(data[k].lit) /\ Ptr(dict, base, data[k].lit).status # "ok"
    THEN Ptr(dict, base, data[k].lit).status
    ELSE DataStatus(dict, base, data, k + 1)

\* resolve_str_pointers, lines 156-164, for one entity: [status, ent]
ResolveEntity(dict, base, e) ==
    LET a == Ptr(dict, base, e.attr_ptr)
    IN  IF a.status # "ok" THEN [status |-> a.status, ent |-> e]
        ELSE IF DataStatus(dict, base, e.data, 1) # "ok"
        THEN [status |-> DataStatus(dict, base, e.data, 1), ent |-> e]
        ELSE [status |-> "ok",
              ent |-> [e EXCEPT !.attributes = a.ref, !.attr_ptr = "$-1",
                                !.data = ResolveData(dict, base, e.data)]]

\* the status of the first entity, in dict order, that fails to resolve
RECURSIVE ResolveStatus(_, _, _)
ResolveStatus(dict, base, k) ==
    IF k > Len(dict) THEN "ok"
    ELSE IF ResolveEntity(dict, base, dict[k].ent).status # "ok"
    THEN ResolveEntity(dict, base, dict[k].ent).status
    ELSE ResolveStatus(dict, base, k + 1)

\* sorted(entities.items()): the positions of the dict by ascending key
RECURSIVE SortedFrom(_, _)
SortedFrom(dict, left) ==
    IF left = {} THEN <<>>
    ELSE LET k == CHOOSE x \in left : \A y \in left : dict[x].num <= dict[y].num
         IN  <<k>> \o SortedFrom(dict, left \ {k})

SortedKeys(dict) == SortedFrom(dict, 1..Len(dict))

\* resolve_str_pointers: [status, objs, entities, nums]; objs are the new
\* objects in dict order, entities their object numbers by ascending record
\* number and nums those record numbers
ResolveStrPointers(dict, base) ==
    IF ResolveStatus(dict, base, 1) # "ok"
    THEN [status |-> ResolveStatus(dict, base, 1), objs |-> <<>>,
          entities |-> <<>>, nums |-> <<>>]
    ELSE LET order == SortedKeys(dict)
         IN  [status |-> "ok",
              objs |-> [k \in 1..Len(dict) |-> ResolveEntity(dict, base, dict[k].ent).ent],
              entities |-> [p \in 1..Len(order) |-> base + order[p]],
              nums |-> [p \in 1..Len(order) |-> dict[order[p]].num]]

(***************************************************************************)
(* Entity graph and parse_sat.                                             *)
(***************************************************************************)
\* AcisTree.set_entities: [bodies, entities]
SetEntities(hp, ents) ==
    [bodies |-> BodiesFrom(hp, ents, 1), entities |-> ents]

Failed(status) ==
    [status |-> status, header |-> AcisHeader, heap |-> <<>>, entities |-> <<>>,
     bodies |-> <<>>, nums |-> <<>>]

\* parse_sat, lines 282-283: the tree of the resolved entities res
ParseSatResolved(hp, hdr, res) ==
    IF res.status # "ok" THEN Failed(res.status)
    ELSE [status |-> "ok", header |-> hdr,
          heap |-> Alloc(hp, res.objs),
          entities |-> res.entities,
          bodies |-> SetEntities(Alloc(hp, res.objs), res.entities).bodies,
          nums |-> res.nums]

\* parse_sat, line 282, on the dict that build_entities returned
ParseSatBuilt(hp, hdr, built) ==
    IF built.status # "ok" THEN Failed(built.status)
    ELSE ParseSatResolved(hp, hdr,
             ResolveStrPointers(built.dict, Cardinality(Allocated(hp))))

\* parse_sat, line 281, on the records that parse_records returned
ParseSatRecords(hp, hdr, recs) ==
    IF recs.status # "ok" THEN Failed(recs.status)
    ELSE ParseSatBuilt(hp, hdr, BuildEntities(recs.records, hdr.version))

\* parse_sat, lines 279-280, on the result hd of parse_sat_header
ParseSatBody(hp, hd) ==
    IF hd.status # "ok" THEN Failed(hd.status)
    ELSE ParseSatRecords(hp, hd.header, ParseRecords(hd.rest))

\* parse_sat on a sequence of lines: [status, header, heap, entities, bodies,
\* nums].  A str argument is the sequence s.splitlines().
ParseSat(hp, data) == ParseSatBody(hp, ParseSatHeader(data))

(***************************************************************************)
(* Inputs of the model.                                                    *)
(***************************************************************************)
\* the sequences over S of length at most n
SeqsUpTo(S, n) == UNION {[1..k -> S] : k \in 0..n}

\* the version codes passed to set_version: the two known ones and another
VersionArgs == {400, 20800, 999}

\* a header as BricsCAD writes it for R2004 and later
BricsHeader ==
    [AcisHeader EXCEPT !.version = 20800, !.product_id = "BricsCAD",
                       !.acis_version = ACIS_VERSION[20800],
                       !.creation_date = "Sat Jan  1 10:00:00 2022"]

\* line 0 of a header: a version token and up to three count tokens, each
\* count numeric or not
Line0s ==
    {Join(<<v>> \o f, " ") \o " " :
        v \in {"400", "20800"}, f \in SeqsUpTo({"5", "abc"}, 3)}

\* line 1 of a header: both dialects, a line with one string only, a date
\* in lower case with single blanks and short numbers, and a date the
\* month does not have
Line1s ==
    {HeaderStr(AcisHeader), HeaderStr(BricsHeader), "8 BricsCAD ",
     "1 a 1 b 22 sun jan 2 3:04:05 2022 ",
     "1 a 1 b 24 Thu Feb 29 12:30:59 2023 "}

\* line 2 of a header: units that "{x:g}" prints in fixed and in exponent
\* form, and a token that is no float
Line2s ==
    {"25.4 9.9999999999999995e-007 1e-010 ", "mm ", "0.00001 x ", "1E6 ",
     "-2.540e1 "}

\* the arguments of parse_sat_header: every line 0 with the lines 1 and 2
\* that dumps() writes, every line 1 with a line 2 that is a float or not,
\* every line 2, and inputs that are too short or carry no version
HeaderInputs ==
    {<<l0, HeaderStr(AcisHeader), "1 9.9999999999999995e-007 1e-010 ">> : l0 \in Line0s}
    \cup {<<l0, l1, l2>> : l0 \in {"20800 1 2 1 ", "700 3 2 0 "}, l1 \in Line1s,
                           l2 \in {"25.4 9.9999999999999995e-007 1e-010 ", "mm "}}
    \cup {<<"400 0 0 0 ", HeaderStr(BricsHeader), l2>> : l2 \in Line2s}
    \cup {<<>>, <<"400 0 0 0 ">>, <<"abc 0 0 0 ", "", "">>, <<" ", "", "">>}

\* the three header lines of a SAT text of the given version
HeaderLines(version) ==
    HeaderDumps(IF version > 400 THEN BricsHeader ELSE AcisHeader)

\* record lines: forward, backward and self references, references to
\* absent records, record number overrides, lines with and without an id
\* token, an attribute token that is no pointer, and a null pointer among
\* the data tokens
RecordLines ==
    {"body $-1 $1 #", "wire $0 #", "0= body $-1 #", "2= wire $2 $0 #",
     "face $2 #", "1= face $1 #", "wire x #", "body $-1 7 $1 #", "wire $0 8 #",
     "wire $0 $-1 #"}

\* the arguments of parse_sat, by their number of record lines: a header of
\* either dialect, then at least one record line
Inputs ==
    [n \in 1..MaxRecords |->
        {HeaderLines(v) \o recs : v \in {400, 20800}, recs \in [1..n -> RecordLines]}]

(***************************************************************************)
(* The state machine: a caller holding one AcisTree and the entities that  *)
(* parse_sat has built so far.                                             *)
(***************************************************************************)
Outcome(op, status, arg, lines, nums) ==
    [op |-> op, status |-> status, arg |-> arg, lines |-> lines, nums |-> nums]

\* AcisTree(): the default header and no entities; NULL_PTR exists
Init ==
    /\ heap = [o \in {NULL_PTR} |-> NullPtrEntity]
    /\ header = AcisHeader
    /\ entities = <<>>
    /\ bodies = <<>>
    /\ result = Outcome("init", "ok", <<>>, <<>>, <<>>)

\* atree = parse_sat(data); a call that raises leaves the caller's tree.
\* No more than MaxObj entities are ever built.
ParseSatAct ==
    \E n \in 1..MaxRecords :
        /\ Cardinality(Allocated(heap)) + n <= MaxObj
        /\ \E data \in Inputs[n] : \E r \in {ParseSat(heap, data)} :
                   IF r.status = "ok"
                   THEN /\ heap' = r.heap
                        /\ header' = r.header
                        /\ entities' = r.entities
                        /\ bodies' = r.bodies
                        /\ result' = Outcome("parse_sat", "ok", data, <<>>, r.nums)
                   ELSE /\ UNCHANGED <<heap, header, entities, bodies>>
                        /\ result' = Outcome("parse_sat", r.status, <<>>, <<>>, <<>>)

\* the sequences of distinct elements of S
Arrangements(S) ==
    {L \in SeqsUpTo(S, Cardinality(S)) : \A i, j \in 1..Len(L) : i # j => L[i] # L[j]}

\* atree.set_entities(L), L a list of distinct entities the caller holds:
\* entities that parse_sat returned, in any order, all or some of them
SetEntitiesAct ==
    \E L \in Arrangements(Allocated(heap)) :
        /\ bodies' = SetEntities(heap, L).bodies
        /\ entities' = SetEntities(heap, L).entities
        /\ result' = Outcome("set_entities", "ok", L, <<>>, <<>>)
        /\ UNCHANGED <<heap, header>>

\* atree.dump_sat()
DumpSatAct ==
    /\ \E r \in {DumpSat(heap, header, entities)} :
           result' = Outcome("dump_sat", r.status, <<>>, r.lines, <<>>)
    /\ UNCHANGED <<heap, header, entities, bodies>>

\* atree.header.set_version(v)
SetVersionAct ==
    \E v \in VersionArgs :
        /\ header' = SetVersion(header, v).header
        /\ result' = Outcome("set_version", SetVersion(header, v).status, v, <<>>, <<>>)
        /\ UNCHANGED <<heap, entities, bodies>>

Next == ParseSatAct \/ SetEntitiesAct \/ DumpSatAct

Spec == Init /\ [][Next]_vars

(***************************************************************************)
(* The header on its own: a caller holding one AcisHeader, built by        *)
(* default or returned by parse_sat_header.                                *)
(***************************************************************************)
\* header, rest = parse_sat_header(data)
ParseSatHeaderAct ==
    \E data \in HeaderInputs :
        /\ LET r == ParseSatHeader(data)
           IN  /\ header' = IF r.status = "ok" THEN r.header ELSE header
               /\ result' = Outcome("parse_sat_header", r.status, data, r.rest, <<>>)
        /\ UNCHANGED <<heap, entities, bodies>>

NextHeader == ParseSatHeaderAct \/ SetVersionAct

SpecHeader == Init /\ [][NextHeader]_vars

(***************************************************************************)
(* Round trips: a caller builds a graph with new_acis_entity, links its    *)
(* entities, sets the version, dumps the graph and parses the dump.        *)
(***************************************************************************)
\* name, id and literal data tokens of the entities the caller builds; the
\* last seven carry a literal or a name that is no single SAT token
Kinds ==
    {[name |-> "body", id |-> -1, lits |-> <<>>],
     [name |-> "wire", id |-> 7, lits |-> <<"x">>],
     [name |-> "face", id |-> -1, lits |-> <<"">>],
     [name |-> "face", id |-> -1, lits |-> <<"a b">>],
     [name |-> "face", id |-> -1, lits |-> <<"$0">>],
     [name |-> "", id |-> -1, lits |-> <<>>],
     [name |-> "a b", id |-> -1, lits |-> <<>>],
     [name |-> "1=", id |-> -1, lits |-> <<>>],
     [name |-> "End-of-ACIS-data", id |-> -1, lits |-> <<>>]}

PlainKinds == {k \in Kinds : k.name \in {"body", "wire"}}

\* entity i of a graph of n entities: attributes is NULL_PTR, the entity
\* itself or the next entity (the first after the last); the data are the
\* literals, then a reference to the previous entity if back is set
GraphEntity(i, n, kind, link, back) ==
    NewAcisEntity(kind.name,
                  CASE link = "null" -> NULL_PTR
                    [] link = "self" -> i
                    [] OTHER -> (i % n) + 1,
                  kind.id,
                  [k \in 1..Len(kind.lits) |-> Lit(kind.lits[k])]
                      \o (IF back THEN <<Ref(((i + n - 2) % n) + 1)>> ELSE <<>>))

\* the graphs of n entities: the first entity of any kind, the others plain
Graphs(n) ==
    {[i \in 1..n |-> GraphEntity(i, n, kind[i], link[i], back[i])] :
        kind \in {f \in [1..n -> Kinds] : \A i \in 2..n : f[i] \in PlainKinds},
        link \in [1..n -> {"null", "self", "next"}],
        back \in [1..n -> BOOLEAN]}

InitRoundTrip ==
    \E n \in 1..MaxGraph : \E objs \in Graphs(n) : \E v \in DOMAIN ACIS_VERSION :
        /\ heap = Alloc([o \in {NULL_PTR} |-> NullPtrEntity], objs)
        /\ header = SetVersion(AcisHeader, v).header
        /\ entities = [i \in 1..n |-> i]
        /\ bodies = SetEntities(heap, entities).bodies
        /\ result = Outcome("init", "ok", <<>>, <<>>, <<>>)

\* atree = parse_sat(lines), lines being what atree.dump_sat() just returned;
\* arg keeps the sequence of the dumped graph.  No more than 2 * MaxGraph
\* entities are ever built.
ParseDumpedAct ==
    /\ result.op = "dump_sat"
    /\ result.status = "ok"
    /\ Cardinality(Allocated(heap)) + Len(entities) <= 2 * MaxGraph
    /\ \E r \in {ParseSat(heap, result.lines)} :
           IF r.status = "ok"
           THEN /\ heap' = r.heap
                /\ header' = r.header
                /\ entities' = r.entities
                /\ bodies' = r.bodies
                /\ result' = Outcome("parse_dumped", "ok", entities, result.lines, r.nums)
           ELSE /\ UNCHANGED <<heap, header, entities, bodies>>
                /\ result' = Outcome("parse_dumped", r.status, entities, result.lines, <<>>)

NextRoundTrip == DumpSatAct \/ ParseDumpedAct

SpecRoundTrip == InitRoundTrip /\ [][NextRoundTrip]_vars

(***************************************************************************)
(* Properties of the header (checked under SpecHeader).                    *)
(***************************************************************************)
\* the tokens of line 0 of the last parse_sat_header argument
Line0Tokens == Split(result.arg[1])

\* count field k of line 0 as the claim reads it: the token's value if the
\* token is there and numeric, else 0
CountField(k) ==
    IF Len(Line0Tokens) >= k /\ IsInt(Line0Tokens[k]) THEN IntOf(Line0Tokens[k]) ELSE 0

\* C7: parse_sat_header of three lines whose line 0 starts with a numeric
\* version token succeeds, and each of n_records, n_entities, history_flag
\* is the value of its own token where that token is a valid integer and 0
\* where it is missing or non-numeric.
C7_PerFieldDefaults ==
    (/\ result.op = "parse_sat_header"
     /\ Len(result.arg) >= 3
     /\ Len(Line0Tokens) >= 1
     /\ IsInt(Line0Tokens[1]))
    => /\ result.status = "ok"
       /\ header.version = IntOf(Line0Tokens[1])
       /\ header.n_records = CountField(2)
       /\ header.n_entities = CountField(3)
       /\ header.history_flag = CountField(4)

\* C8: set_version(v) with v = 400 or v = 20800 sets version to v and
\* acis_version to the table's string for v; with any other v it raises
\* ValueError and leaves version and acis_version as they were.
C8_SetVersion ==
    [][result'.op = "set_version" =>
          IF result'.arg \in {400, 20800}
          THEN /\ result'.status = "ok"
               /\ header'.version = result'.arg
               /\ header'.acis_version =
                      (IF result'.arg = 400 THEN "ACIS 4.00 NT" ELSE "ACIS 208.00 NT")
          ELSE /\ result'.status = "ValueError"
               /\ header'.version = header.version
               /\ header'.acis_version = header.acis_version]_vars

\* C8 witness: a failing set_version(999) on a header whose version had
\* been set to 20800
C8_Witness ==
    /\ result.op = "set_version"
    /\ result.arg = 999
    /\ result.status = "ValueError"
    /\ header.version = 20800
    /\ header.acis_version = "ACIS 208.00 NT"

\* acis_version is the string the version table gives for version
Coupled(h) ==
    /\ h.version \in DOMAIN ACIS_VERSION
    /\ h.acis_version = ACIS_VERSION[h.version]

\* C9 as claimed: in every header built by default or returned by
\* parse_sat_header, after any set_version calls, acis_version is the
\* table's string for version.
C9_AlwaysCoupled == Coupled(header)

\* C9 amended: the default header is coupled; set_version keeps a coupled
\* header coupled whether it succeeds or raises, and a successful
\* set_version couples any header, a parsed one included.  parse_sat_header
\* itself takes version from line 0 and acis_version from line 1.
C9_CoupledBySetter ==
    /\ Coupled(header)
    /\ [][(result'.op = "set_version" /\ (Coupled(header) \/ result'.status = "ok"))
              => Coupled(header')]_vars

\* C9 witness: a parsed header (BricsCAD's product id) whose version and
\* version string disagreed, coupled again by set_version(400)
C9_Witness ==
    /\ result.op = "set_version"
    /\ result.status = "ok"
    /\ header.product_id = "BricsCAD"
    /\ header.n_records = 3
    /\ header.version = 400
    /\ header.acis_version = "ACIS 4.00 NT"

(***************************************************************************)
(* Properties of the entity graph (checked under Spec).                    *)
(***************************************************************************)
\* the elements of a sequence
Range(seq) == {seq[k] : k \in 1..Len(seq)}

\* the references an entity holds: its attributes and its data references
RefsOf(e) == {e.attributes} \cup {e.data[k].ref : k \in {j \in 1..Len(e.data) : e.data[j].isref}}

ParsedOk == result.op = "parse_sat" /\ result.status = "ok"

\* C2: in a graph returned by parse_sat every reference of every entity,
\* attributes and data alike, is NULL_PTR or one of the graph's entities,
\* and no literal data token is a pointer string.
C2_ReferenceClosure ==
    ParsedOk =>
        \A p \in 1..Len(entities) :
            LET e == heap[entities[p]]
            IN  /\ RefsOf(e) \subseteq ({NULL_PTR} \cup Range(entities))
                /\ \A k \in 1..Len(e.data) : ~e.data[k].isref => ~IsPtr(e.data[k].lit)

\* C2 witness: a parsed graph with an attribute reference and a data
\* reference to entities of the graph
C2_Witness ==
    /\ ParsedOk
    /\ \E p, q \in 1..Len(entities) :
           /\ heap[entities[p]].attributes \in Range(entities)
           /\ \E k \in 1..Len(heap[entities[q]].data) :
                  /\ heap[entities[q]].data[k].isref
                  /\ heap[entities[q]].data[k].ref \in Range(entities)

\* some entity of the graph refers to an entity that is neither NULL_PTR
\* nor in the graph's sequence
ForeignLink ==
    \E p \in 1..Len(entities) :
        ~(RefsOf(heap[entities[p]]) \subseteq ({NULL_PTR} \cup Range(entities)))

\* C3: dump_sat of a graph with a reference to an entity outside its own
\* sequence raises InvalidACISLinkStructure and returns no line at all.
C3_ForeignLinkFails ==
    (result.op = "dump_sat" /\ ForeignLink)
        => (result.status = "InvalidACISLinkStructure" /\ result.lines = <<>>)

\* C3 witness: a dump that failed on a graph whose only entity refers to
\* an entity that set_entities had left out of the sequence
C3_Witness ==
    /\ result.op = "dump_sat"
    /\ result.status = "InvalidACISLinkStructure"
    /\ result.lines = <<>>
    /\ entities = <<1>>
    /\ 2 \in RefsOf(heap[1])

\* the pointer token t names the reference r: "$-1" exactly for NULL_PTR,
\* else "$i" with entities[i] being r (entities[i + 1] counting from 1)
NamesRef(t, r) ==
    /\ (t = "$-1") <=> (r = NULL_PTR)
    /\ r # NULL_PTR =>
           /\ IsPtr(t)
           /\ IsInt(SubSeq(t, 2, Len(t)))
           /\ IntOf(SubSeq(t, 2, Len(t))) \in 0..(Len(entities) - 1)
           /\ entities[IntOf(SubSeq(t, 2, Len(t))) + 1] = r

\* C4: in the lines of a successful dump_sat the line of the entity at
\* position p carries, for attributes and for every data reference, the
\* pointer token of the referenced entity's position in the sequence the
\* graph holds at the time of the dump.
C4_PositionalPointers ==
    (result.op = "dump_sat" /\ result.status = "ok") =>
        /\ Len(result.lines) = Len(entities) + 4
        /\ \A p \in 1..Len(entities) :
               LET e == heap[entities[p]]
                   tokens == Split(result.lines[3 + p])
                   first == IF header.version >= 700 THEN 3 ELSE 2
               IN  /\ Len(tokens) = first + Len(e.data) + 1
                   /\ NamesRef(tokens[2], e.attributes)
                   /\ \A k \in 1..Len(e.data) :
                          e.data[k].isref => NamesRef(tokens[first + k], e.data[k].ref)

\* C4 witness: a successful dump after the parsed sequence was reversed,
\* the entity now first referring to the one now second
C4_Witness ==
    /\ result.op = "dump_sat"
    /\ result.status = "ok"
    /\ entities = <<2, 1>>
    /\ heap[2].attributes = 1
    /\ result.lines[4] = "wire $1 #"

\* the dict build_entities makes of the last parse_sat argument
InputDict ==
    BuildEntities(ParseRecords(SubSeq(result.arg, 4, Len(result.arg))).records,
                  header.version).dict

\* the records parse_records makes of the last parse_sat argument
InputRecords == ParseRecords(SubSeq(result.arg, 4, Len(result.arg))).records

\* the number a pointer token names
PtrNum(t) == IntOf(SubSeq(t, 2, Len(t)))

\* the entity of the returned graph built from the record numbered n
EntityOfRecord(n) == entities[CHOOSE q \in 1..Len(entities) : result.nums[q] = n]

\* the pointer token t is resolved to r: NULL_PTR for "$-1", else the
\* entity built from the record numbered as the token says
ResolvedTo(t, r) ==
    IF PtrNum(t) = -1 THEN r = NULL_PTR
    ELSE /\ \E q \in 1..Len(entities) : result.nums[q] = PtrNum(t)
         /\ r = EntityOfRecord(PtrNum(t))

\* C5: in a graph returned by parse_sat the entities stand in ascending
\* order of record number, each built from the (last) record with its
\* number, and every pointer token of that record, in the attribute position
\* or among the data tokens, is resolved to the entity built from the record
\* the token names, wherever that record stands in the source, and "$-1" to
\* NULL_PTR.
C5_TwoPassResolution ==
    ParsedOk =>
        /\ Len(result.nums) = Len(entities)
        /\ \A p, q \in 1..Len(entities) : p < q => result.nums[p] < result.nums[q]
        /\ \A p \in 1..Len(entities) :
               LET e == heap[entities[p]]
                   raw == InputDict[KeyPos(InputDict, result.nums[p])].ent
               IN  /\ e.name = raw.name
                   /\ ResolvedTo(raw.attr_ptr, e.attributes)
                   /\ Len(e.data) = Len(raw.data)
                   /\ \A k \in 1..Len(raw.data) :
                          IF IsPtr(raw.data[k].lit)
                          THEN e.data[k].isref /\ ResolvedTo(raw.data[k].lit, e.data[k].ref)
                          ELSE e.data[k] = raw.data[k]

\* C5 witness: records numbered 0 and 2, the first referring forward to
\* the second, the second to itself and back to the first
C5_Witness ==
    /\ ParsedOk
    /\ result.nums = <<0, 2>>
    /\ heap[entities[1]].attributes = entities[2]
    /\ heap[entities[2]].attributes = entities[2]
    /\ heap[entities[2]].data[1].ref = entities[1]

\* the token is a pointer to a record number that none of the given
\* record numbers equals
Dangling(t, nums) ==
    /\ IsPtr(t)
    /\ IsInt(SubSeq(t, 2, Len(t)))
    /\ PtrNum(t) # -1
    /\ PtrNum(t) \notin nums

\* the pointer tokens of a record: the attribute pointer and the data tokens
RecordPointers(tokens) ==
    LET first == IF header.version >= 700 THEN 4 ELSE 3
    IN  {tokens[k] : k \in {2} \cup first..Len(tokens)}

\* C6 as claimed: parse_sat returns no graph if any record of the input
\* holds, as attribute pointer or data token, a pointer to a record number
\* that no record of the input has.
C6_AnyRecordDangling ==
    ParsedOk =>
        \A i \in 1..Len(InputRecords) :
            \A t \in RecordPointers(InputRecords[i].tokens) :
                ~Dangling(t, {InputRecords[j].num : j \in 1..Len(InputRecords)})

\* C6 amended: parse_sat returns no graph if any entity of the mapping
\* built from the input (for each record number the last record with that
\* number) holds, as attribute pointer or data token, a pointer to a record
\* number that no record of the input has; a graph that is returned holds
\* no raw pointer string and no NULL_PTR in place of such a pointer.
C6_MappedRecordDangling ==
    ParsedOk =>
        /\ \A i \in 1..Len(InputDict) :
               LET raw == InputDict[i].ent
                   nums == {InputDict[j].num : j \in 1..Len(InputDict)}
               IN  /\ ~Dangling(raw.attr_ptr, nums)
                   /\ \A k \in 1..Len(raw.data) : ~Dangling(raw.data[k].lit, nums)
        /\ \A p \in 1..Len(entities) :
               \A k \in 1..Len(heap[entities[p]].data) :
                   ~heap[entities[p]].data[k].isref
                       => ~IsPtr(heap[entities[p]].data[k].lit)

\* C6 witness: parse_sat raised the KeyError of a pointer whose record
\* number is absent, and the caller's tree is still the one of an earlier
\* successful parse
C6_Witness ==
    /\ result.op = "parse_sat"
    /\ result.status = "KeyError"
    /\ Len(entities) = 1

\* C10: bodies is the subsequence of entities whose name is "body", in the
\* order of entities, after parse_sat and after every set_entities(L), and
\* entities is L after set_entities(L).
C10_BodiesDerived ==
    /\ bodies = SelectSeq(entities, LAMBDA e : heap[e].name = "body")
    /\ result.op = "set_entities" => entities = result.arg

\* C10 witness: set_entities replaced a sequence that held a body by one
\* that holds none
C10_Witness ==
    /\ result.op = "set_entities"
    /\ entities = <<2>>
    /\ bodies = <<>>
    /\ heap[1].name = "body"
    /\ heap[2].name = "wire"

(***************************************************************************)
(* Properties of the round trip (checked under SpecRoundTrip).             *)
(***************************************************************************)
\* the reference r of the dumped graph G and the reference r2 of the parsed
\* graph point to the same position: both NULL_PTR, or r2 is the parsed
\* entity at the position r has in G
SamePosition(G, r, r2) ==
    IF r = NULL_PTR THEN r2 = NULL_PTR
    ELSE /\ Index(G, r) >= 0
         /\ r2 = entities[Index(G, r) + 1]

\* the entities at position p of G and of the parsed graph agree in name,
\* literal data tokens and references by position
SameEntity(G, p) ==
    LET e == heap[G[p]]
        e2 == heap[entities[p]]
    IN  /\ e2.name = e.name
        /\ SamePosition(G, e.attributes, e2.attributes)
        /\ Len(e2.data) = Len(e.data)
        /\ \A k \in 1..Len(e.data) :
               IF e.data[k].isref
               THEN e2.data[k].isref /\ SamePosition(G, e.data[k].ref, e2.data[k].ref)
               ELSE ~e2.data[k].isref /\ e2.data[k].lit = e.data[k].lit

\* C1 as claimed: parse_sat(G.dump_sat()) of a valid graph returns a graph
\* of as many entities, each with the name, the id, the literal data tokens
\* and, by position, the references of the entity of G at its position.
C1_RoundTrip ==
    result.op = "parse_dumped" =>
        /\ result.status = "ok"
        /\ Len(entities) = Len(result.arg)
        /\ \A p \in 1..Len(result.arg) :
               /\ SameEntity(result.arg, p)
               /\ heap[entities[p]].id = heap[result.arg[p]].id

\* a name or literal that the record grammar reads back as one token
OneToken(t) == t # "" /\ \A i \in 1..Len(t) : ~IsSpace(Ch(t, i))

\* the names and literals of the entities of G are tokens of the record
\* grammar: every name and literal one token, no name a record number
\* override or an end marker, no literal a pointer
TokensOf(G) ==
    \A p \in 1..Len(G) :
        LET e == heap[G[p]]
        IN  /\ OneToken(e.name)
            /\ ~EndsWith(e.name, "=")
            /\ ~StartsWith(e.name, "End-of-ACIS-data")
            /\ ~StartsWith(e.name, "Begin-of-ACIS-History-Data")
            /\ \A k \in 1..Len(e.data) :
                   ~e.data[k].isref => (OneToken(e.data[k].lit) /\ ~IsPtr(e.data[k].lit))

\* C1 amended: for a valid graph G whose names and literals are tokens of
\* the record grammar, parse_sat(G.dump_sat()) returns a graph of as many
\* entities, each with the name, the literal data tokens and, by position,
\* the references of the entity of G at its position, and with its id if
\* the version is 700 or more; below 700 no id is written and every parsed
\* id is -1.
C1_RoundTripOfTokens ==
    (result.op = "parse_dumped" /\ TokensOf(result.arg)) =>
        /\ result.status = "ok"
        /\ Len(entities) = Len(result.arg)
        /\ \A p \in 1..Len(result.arg) :
               /\ SameEntity(result.arg, p)
               /\ heap[entities[p]].id =
                      (IF header.version >= 700 THEN heap[result.arg[p]].id ELSE -1)

\* C1 witness: the parsed dump of a graph of version 20800 whose two
\* entities refer to each other, the first with the id 7 and a literal
C1_Witness ==
    /\ result.op = "parse_dumped"
    /\ result.status = "ok"
    /\ header.version = 20800
    /\ result.arg = <<1, 2>>
    /\ entities = <<3, 4>>
    /\ heap[3].id = 7
    /\ heap[3].attributes = 4
    /\ heap[4].data = <<Ref(3)>>
    /\ heap[3].data[1] = Lit("x")

(***************************************************************************)
(* The record pipeline step by step: _merge_record_strings, parse_records  *)
(* and build_entities on a text below the header, and dump_sat of a graph, *)
(* under a header whose version was read from a file.                      *)
(***************************************************************************)
\* header versions around the first version with an id token
IdVersions == {400, 699, 700, 20800}

\* lines of a text: empty and blank lines, whole records with and without
\* an id token, a record in three pieces with a record number override,
\* and the two markers
TextLines ==
    {"", " ", "body $-1 #", "wire $0 7 x #", "2= face $-1", "$2 3 ", "#",
     "End-of-ACIS-data ", "Begin-of-ACIS-History-Data"}

LineInputs == SeqsUpTo(TextLines, MaxLines)

\* what a call of a pipeline function returned or raised, with its argument
Returned(op, status, arg, value) ==
    [op |-> op, status |-> status, arg |-> arg, lines |-> <<>>, nums |-> <<>>,
     value |-> value]

\* the graph of the tree: a wire with an id and a literal that refers to
\* itself and to a body
RecordGraph ==
    <<NewAcisEntity("wire", 1, 7, <<Lit("x"), Ref(2)>>),
      NewAcisEntity("body", NULL_PTR, 12, <<>>)>>

\* a tree with the graph, a header version read from a file, and a text
\* about to be tokenized
InitRecords ==
    \E v \in IdVersions : \E data \in LineInputs :
        /\ heap = Alloc([o \in {NULL_PTR} |-> NullPtrEntity], RecordGraph)
        /\ header = [AcisHeader EXCEPT !.version = v]
        /\ entities = <<1, 2>>
        /\ bodies = <<2>>
        /\ result = Returned("init", "ok", data, <<>>)

\* list(_merge_record_strings(data))
MergeRecordStringsAct ==
    /\ result.op = "init"
    /\ result' = Returned("merge_record_strings", "ok", result.arg,
                          MergeRecordStrings(result.arg))
    /\ UNCHANGED <<heap, header, entities, bodies>>

\* parse_records(data)
ParseRecordsAct ==
    /\ result.op = "merge_record_strings"
    /\ \E r \in {ParseRecords(result.arg)} :
           result' = Returned("parse_records", r.status, result.arg, r.records)
    /\ UNCHANGED <<heap, header, entities, bodies>>

\* build_entities(records, header.version) on the records just returned
BuildEntitiesAct ==
    /\ result.op = "parse_records"
    /\ result.status = "ok"
    /\ \E r \in {BuildEntities(result.value, header.version)} :
           result' = Returned("build_entities", r.status, result.value, r.dict)
    /\ UNCHANGED <<heap, header, entities, bodies>>

NextRecords ==
    MergeRecordStringsAct \/ ParseRecordsAct \/ BuildEntitiesAct \/ DumpSatAct

SpecRecords == InitRecords /\ [][NextRecords]_vars

(***************************************************************************)
(* Properties of the record pipeline (checked under SpecRecords).          *)
(***************************************************************************)
\* the tokens of the k-th merged record string of the text
MergedTokens(k) == Split(MergeRecordStrings(result.arg)[k])

\* the k-th merged record string starts with a record number override
HasOverride(k) == EndsWith(MergedTokens(k)[1], "=")

\* the number an override token gives
OverrideNum(t) == IntOf(SubSeq(t, 1, Len(t) - 1))

\* the tokens parse_records keeps of the k-th record: all but the override
\* token and the terminator
KeptTokens(k) ==
    IF HasOverride(k) THEN DropLast(Tail(MergedTokens(k)))
    ELSE DropLast(MergedTokens(k))

ParsedRecords == result.op = "parse_records" /\ result.status = "ok"

\* C11 as claimed: a record with an override token gets the token's number
\* and loses the token; every other record gets the count of the records
\* before it in the input, whatever overrides occurred before it.
C11_NumberIsCount ==
    ParsedRecords =>
        /\ Len(result.value) = Len(MergeRecordStrings(result.arg))
        /\ \A k \in 1..Len(result.value) :
               /\ result.value[k].tokens = KeptTokens(k)
               /\ result.value[k].num =
                      (IF HasOverride(k) THEN OverrideNum(MergedTokens(k)[1])
                       ELSE k - 1)

\* C11 amended: a record with an override token gets the token's number and
\* loses the token; every other record gets one more than the number of the
\* record before it, override or not, and 0 if it is the first record; the
\* terminator is dropped from every record.
C11_NumberFollowsPrevious ==
    ParsedRecords =>
        /\ Len(result.value) = Len(MergeRecordStrings(result.arg))
        /\ \A k \in 1..Len(result.value) :
               /\ result.value[k].tokens = KeptTokens(k)
               /\ result.value[k].num =
                      (IF HasOverride(k) THEN OverrideNum(MergedTokens(k)[1])
                       ELSE IF k = 1 THEN 0
                       ELSE result.value[k - 1].num + 1)

\* C11 witness: a record in two pieces with the override 2=, then a record
\* without override, numbered 2 and 3
C11_Witness ==
    /\ ParsedRecords
    /\ result.arg = <<"2= face $-1", "#", "body $-1 #">>
    /\ Len(result.value) = 2
    /\ result.value[1] = [num |-> 2, tokens |-> <<"face", "$-1">>]
    /\ result.value[2] = [num |-> 3, tokens |-> <<"body", "$-1">>]

\* the line begins with one of the two markers
IsMarker(line) ==
    \/ StartsWith(line, "End-of-ACIS-data")
    \/ StartsWith(line, "Begin-of-ACIS-History-Data")

\* the position of the first marker line of the text, or one past its end
FirstMarker(data) ==
    Min({i \in 1..Len(data) : IsMarker(data[i])} \cup {Len(data) + 1})

\* the positions of the lines that contribute: not empty, before any marker
Contributing(data) == {i \in 1..(FirstMarker(data) - 1) : data[i] # ""}

\* the contributing lines that end with the terminator
Terminating(data) == {i \in Contributing(data) : EndsWith(data[i], "#")}

\* the positions of the k-th run: the contributing lines after the previous
\* terminating line up to the k-th terminating line
RunOf(data, k) ==
    {i \in Contributing(data) :
        /\ i <= Nth(Terminating(data), k)
        /\ k > 1 => i > Nth(Terminating(data), k - 1)}

\* the lines at the positions of a run, in order, each but the last
\* followed by one space unless it ends in a space
RECURSIVE RunText(_, _)
RunText(data, run) ==
    IF run = {} THEN ""
    ELSE LET i == Min(run)
         IN  data[i]
             \o (IF run # {i} /\ ~EndsWith(data[i], " ") THEN " " ELSE "")
             \o RunText(data, run \ {i})

\* the line is blank: empty, or of whitespace only
IsBlankLine(line) == \A k \in 1..Len(line) : IsSpace(Ch(line, k))

\* the positions of the k-th run that hold a line that is not blank
NonBlankRunOf(data, k) == {i \in RunOf(data, k) : ~IsBlankLine(data[i])}

\* C12 as stated: the records _merge_record_strings emits are exactly the
\* runs of non-blank lines before the first marker line, each run ending at
\* the first line that ends with "#", its lines joined with one space unless
\* the preceding line ends in a space, every record ending with "#"; a
\* line of whitespace contributes nothing.
C12_NonBlankRuns ==
    result.op = "merge_record_strings" =>
        /\ Len(result.value) = Cardinality(Terminating(result.arg))
        /\ \A k \in 1..Len(result.value) :
               /\ result.value[k] = RunText(result.arg, NonBlankRunOf(result.arg, k))
               /\ EndsWith(result.value[k], "#")
        /\ result.value =
               MergeRecordStrings(SubSeq(result.arg, 1, FirstMarker(result.arg) - 1))

\* C12 amended: the records _merge_record_strings emits are exactly the
\* runs of non-empty lines before the first marker line, a line of
\* whitespace being a line of its run like any other; each run ends at the
\* first line that ends with "#", its lines joined with one space unless
\* the preceding line ends in a space; no line at or after the first marker
\* contributes, a run without terminator is not emitted, and every emitted
\* record ends with "#".
C12_MergedRuns ==
    result.op = "merge_record_strings" =>
        /\ Len(result.value) = Cardinality(Terminating(result.arg))
        /\ \A k \in 1..Len(result.value) :
               /\ result.value[k] = RunText(result.arg, RunOf(result.arg, k))
               /\ EndsWith(result.value[k], "#")
        /\ result.value =
               MergeRecordStrings(SubSeq(result.arg, 1, FirstMarker(result.arg) - 1))

\* C12 witness: a record in three pieces, the second a line of one space,
\* is merged into one record that holds the space of the blank line after
\* the separating space
C12_Witness ==
    /\ result.op = "merge_record_strings"
    /\ result.arg = <<"2= face $-1", " ", "#">>
    /\ result.value = <<"2= face $-1  #">>

\* the record grammar carries an id token under the header's version
HasIdToken == header.version >= 700

\* the tokens are a record build_entities accepts under the header's version
WellFormedRecord(tokens) ==
    /\ Len(tokens) >= 2
    /\ HasIdToken => (Len(tokens) >= 3 /\ IsInt(tokens[3]))

\* the entity e is built from the tokens: the id from the third token and
\* the data from the fourth on if there is an id token, else the id -1 and
\* the data from the third token on
BuiltFrom(e, tokens) ==
    LET first == IF HasIdToken THEN 4 ELSE 3
    IN  /\ e.name = tokens[1]
        /\ e.attr_ptr = tokens[2]
        /\ e.id = (IF HasIdToken THEN IntOf(tokens[3]) ELSE -1)
        /\ Len(e.data) = Len(tokens) - first + 1
        /\ \A k \in 1..Len(e.data) : e.data[k] = Lit(tokens[first + k - 1])

\* the tokens of the line dump_sat wrote for the entity at position p
DumpedTokens(p) == Split(result.lines[3 + p])

\* the line written for the entity has the id as its third token if there
\* is an id token, and otherwise the data right after the pointer
DumpedWithId(p) ==
    LET e == heap[entities[p]]
        toks == DumpedTokens(p)
        first == IF HasIdToken THEN 4 ELSE 3
    IN  /\ Len(toks) = first + Len(e.data)
        /\ toks[1] = e.name
        /\ HasIdToken => toks[3] = Str(e.id)
        /\ \A k \in 1..Len(e.data) :
               ~e.data[k].isref => toks[first + k - 1] = e.data[k].lit
        /\ toks[Len(toks)] = "#"

\* C13: the record grammar carries an id token exactly when the version is
\* 700 or more.  build_entities accepts the records that have one then, and
\* takes the id from token[2] and the data from tokens[3:]; below 700 the
\* id is -1 and the data are tokens[2:].  dump_sat writes the id as the
\* third token of each line iff the version is 700 or more.
C13_IdField ==
    /\ result.op = "build_entities" =>
           /\ result.status = "ok" <=>
                  \A i \in 1..Len(result.arg) : WellFormedRecord(result.arg[i].tokens)
           /\ result.status = "ok" =>
                  \A i \in 1..Len(result.arg) :
                      (\A j \in (i + 1)..Len(result.arg) :
                           result.arg[j].num # result.arg[i].num)
                      => /\ HasKey(result.value, result.arg[i].num)
                         /\ BuiltFrom(result.value[KeyPos(result.value,
                                                          result.arg[i].num)].ent,
                                      result.arg[i].tokens)
    /\ (result.op = "dump_sat" /\ result.status = "ok") =>
           /\ Len(result.lines) = Len(entities) + 4
           /\ \A p \in 1..Len(entities) : DumpedWithId(p)

\* C13 witness: under version 700 the record "wire $0 7 x" is built into an
\* entity with the id 7 and the data x
C13_Witness ==
    /\ result.op = "build_entities"
    /\ result.status = "ok"
    /\ header.version = 700
    /\ result.arg = <<[num |-> 0, tokens |-> <<"wire", "$0", "7", "x">>]>>
    /\ result.value[1].ent.id = 7
    /\ result.value[1].ent.data = <<Lit("x")>>

(***************************************************************************)
(* Header round trips: a caller sets the fields of a header, dumps it and  *)
(* parses the three lines.                                                 *)
(***************************************************************************)
\* versions of either dialect, on both sides of the dialect's threshold
DialectVersions == {400, 401, 20800}

\* product ids: empty, with a space, with "@" and digits, all digits, and
\* the default
ProductIds == {"", "a b", "@7 x", "12", "ezdxf ACIS Builder"}

\* version strings: empty, the two of the table, and one of digits and "@"
AcisVersions == {"", "ACIS 4.00 NT", "ACIS 208.00 NT", "4 @1"}

InitHeaderRoundTrip ==
    \E v \in DialectVersions : \E pid \in ProductIds : \E av \in AcisVersions :
        /\ heap = [o \in {NULL_PTR} |-> NullPtrEntity]
        /\ header = [AcisHeader EXCEPT !.version = v, !.product_id = pid,
                                       !.acis_version = av]
        /\ entities = <<>>
        /\ bodies = <<>>
        /\ result = Outcome("init", "ok", <<>>, <<>>, <<>>)

\* lines = header.dumps(); arg keeps the header that was dumped
HeaderDumpsAct ==
    /\ result.op = "init"
    /\ result' = Outcome("dumps", "ok", header, HeaderDumps(header), <<>>)
    /\ UNCHANGED <<heap, header, entities, bodies>>

\* header, _ = parse_sat_header(lines) on the lines just dumped
ParseDumpedHeaderAct ==
    /\ result.op = "dumps"
    /\ \E r \in {ParseSatHeader(result.lines)} :
           /\ header' = IF r.status = "ok" THEN r.header ELSE header
           /\ result' = Outcome("parse_dumped_header", r.status, result.arg,
                                result.lines, <<>>)
    /\ UNCHANGED <<heap, entities, bodies>>

NextHeaderRoundTrip == HeaderDumpsAct \/ ParseDumpedHeaderAct

SpecHeaderRoundTrip == InitHeaderRoundTrip /\ [][NextHeaderRoundTrip]_vars

(***************************************************************************)
(* Properties of the header round trip (checked under SpecHeaderRoundTrip).*)
(***************************************************************************)
\* the string s with its length prefix in the dialect of the version
LengthPrefixed(version, s) ==
    (IF version > 400 THEN "@" ELSE "") \o Str(Len(s)) \o " " \o s \o " "

\* C14 as claimed: dumps() writes line 1 as the three strings, each with
\* its current length as prefix, in the "@" form iff version > 400, and
\* parse_sat_header of the dumped lines recovers version, product_id and
\* acis_version, whatever the two strings are (empty strings included).
C14_HeaderRoundTrip ==
    /\ result.op = "dumps" =>
           result.lines[2] =
               LengthPrefixed(header.version, header.product_id)
               \o LengthPrefixed(header.version, header.acis_version)
               \o LengthPrefixed(header.version, header.creation_date)
    /\ result.op = "parse_dumped_header" =>
           /\ result.status = "ok"
           /\ header.version = result.arg.version
           /\ header.product_id = result.arg.product_id
           /\ header.acis_version = result.arg.acis_version

(***************************************************************************)
(* Properties of the null sentinel (checked under Spec).                   *)
(***************************************************************************)
\* the entity at position p of the returned graph, before resolution
RawEntity(p) == InputDict[KeyPos(InputDict, result.nums[p])].ent

\* C15: over all parse_sat, set_entities and dump_sat calls, NULL_PTR keeps
\* the fields it was constructed with, is no element of entities or bodies,
\* and in every graph parse_sat returns every "$-1", as attribute pointer
\* or data token, is resolved to that one NULL_PTR.
C15_NullSentinel ==
    /\ heap[NULL_PTR] = NullPtrEntity
    /\ NULL_PTR \notin Range(entities) \cup Range(bodies)
    /\ ParsedOk =>
           \A p \in 1..Len(entities) :
               /\ RawEntity(p).attr_ptr = "$-1" =>
                      heap[entities[p]].attributes = NULL_PTR
               /\ \A k \in 1..Len(RawEntity(p).data) :
                      RawEntity(p).data[k].lit = "$-1" =>
                          heap[entities[p]].data[k] = Ref(NULL_PTR)

\* C15 witness: two graphs parsed one after the other, the entity of the
\* first with NULL_PTR as attributes, the entity of the second with
\* NULL_PTR among its data
C15_Witness ==
    /\ ParsedOk
    /\ Allocated(heap) = {1, 2}
    /\ entities = <<2>>
    /\ heap[1].attributes = NULL_PTR
    /\ heap[2].attributes = 2
    /\ heap[2].data = <<Ref(NULL_PTR)>>
    /\ heap[NULL_PTR] = NullPtrEntity

====
